---------------------------- MODULE Spec2Model ----------------------------
(***************************************************************************)
(* A model of pdf_extractor.py: the per-page task (process_page_task),     *)
(* the progress scan (get_last_processed_page), the combiner               *)
(* (combine_text_files), the coordinator (process_pdf) and the command     *)
(* line front end (setup_and_run), over an output store that persists      *)
(* from one invocation of the program to the next.                         *)
(*                                                                         *)
(* Text is modelled as sequences of one-character strings, so that         *)
(* formatting (f"{n:04d}"), parsing (int, isdigit), strip(), read(50) and  *)
(* the substring test are computed as the code computes them.              *)
(*                                                                         *)
(* The rendering engine, the OCR engine and the file system are the        *)
(* environment: each call either returns or raises, chosen                 *)
(* nondeterministically.  A write with open(path, 'w') that raises either  *)
(* fails when the file is opened, and leaves the file as it was, or fails  *)
(* once the file is open, and leaves it truncated.  The source document   *)
(* has any number of pages up to MaxPages, none included.                  *)
(*                                                                         *)
(* The page tasks run concurrently: their steps interleave freely, and     *)
(* sys.stderr, which suppress_stderr reassigns, is one variable for all.   *)
(***************************************************************************)
EXTENDS Integers, Sequences, FiniteSets, TLC

\* ------------------------------------------------------------------ bounds

\* Greatest number of pages of the source document (len(doc)).
MaxPages == 2
\* Number of invocations of the program over the same output store.
MaxRuns == 2

\* ------------------------------------------------------- program constants

\* f.read(50): how much of a text artifact the combiner inspects.
ReadLen == 50
\* f"{page_index:04d}": the zero-padded width of an artifact's name.
PadWidth == 4

\* ------------------------------------------------------------------- text

Digits == <<"0", "1", "2", "3", "4", "5", "6", "7", "8", "9">>
Whitespace == {" ", "\n", "\t"}

Min(a, b) == IF a <= b THEN a ELSE b

\* str(n) for a natural number n.
RECURSIVE Str(_)
Str(n) == IF n < 10 THEN <<Digits[n + 1]>>
          ELSE Str(n \div 10) \o <<Digits[(n % 10) + 1]>>

\* f"{n:04d}"
Fmt04(n) ==
    LET s == Str(n)
    IN  IF Len(s) >= PadWidth THEN s
        ELSE [i \in 1..(PadWidth - Len(s)) |-> "0"] \o s

\* str.isdigit(): non-empty and every character a digit.
IsDigit(s) ==
    /\ Len(s) > 0
    /\ \A i \in 1..Len(s) : \E d \in 1..10 : s[i] = Digits[d]

DigitVal(c) == (CHOOSE d \in 1..10 : Digits[d] = c) - 1

\* int(s) for a string of digits.
RECURSIVE ParseInt(_)
ParseInt(s) ==
    IF Len(s) = 0 THEN 0
    ELSE 10 * ParseInt(SubSeq(s, 1, Len(s) - 1)) + DigitVal(s[Len(s)])

\* str.strip()
RECURSIVE LStrip(_)
LStrip(s) == IF Len(s) > 0 /\ s[1] \in Whitespace THEN LStrip(Tail(s)) ELSE s
RECURSIVE RStrip(_)
RStrip(s) == IF Len(s) > 0 /\ s[Len(s)] \in Whitespace
             THEN RStrip(SubSeq(s, 1, Len(s) - 1)) ELSE s
Strip(s) == RStrip(LStrip(s))

\* f.read(n): the first n characters.
ReadPrefix(s, n) == SubSeq(s, 1, Min(n, Len(s)))

\* sub in s
Contains(s, sub) ==
    \E i \in 0..(Len(s) - Len(sub)) : SubSeq(s, i + 1, i + Len(sub)) = sub

StartsWith(s, pre) == Len(s) >= Len(pre) /\ SubSeq(s, 1, Len(pre)) = pre

\* "OCR FAILED": what the combiner looks for.
Marker == <<"O", "C", "R", " ", "F", "A", "I", "L", "E", "D">>
\* "OCR FAILED FOR THIS PAGE: ": what a failed page's text artifact starts with.
Sentinel == Marker \o <<" ", "F", "O", "R", " ", "T", "H", "I", "S", " ",
                        "P", "A", "G", "E", ":", " ">>
\* "OCR failed: "
ErrPrefix == <<"O", "C", "R", " ", "f", "a", "i", "l", "e", "d", ":", " ">>
HeaderRule == [i \in 1..20 |-> "="]

\* f"{type(e).__name__}: {str(e)}"
ErrorMsgBare(e) == e.kind \o <<":", " ">> \o e.detail

\* f"OCR failed: {type(e).__name__}: {str(e)}"
ErrorMsg(e) == ErrPrefix \o e.kind \o <<":", " ">> \o e.detail

\* f"OCR FAILED FOR THIS PAGE: {error_msg}"
SentinelText(error_msg) == Sentinel \o error_msg

\* f"\n\n==================== PAGE {n} ====================\n\n"
Header(n) ==
    <<"\n", "\n">> \o HeaderRule \o <<" ", "P", "A", "G", "E", " ">> \o Str(n)
        \o <<" ">> \o HeaderRule \o <<"\n", "\n">>

\* ------------------------------------------------- the environment's values

\* The exceptions the engines and the file system raise, by the step raising.
ErrOpen   == [kind |-> <<"F", "i", "l", "e", "D", "a", "t", "a", "E", "r", "r", "o", "r">>,
              detail |-> <<"d">>]
ErrRender == [kind |-> <<"R", "u", "n", "t", "i", "m", "e", "E", "r", "r", "o", "r">>,
              detail |-> <<"r">>]
ErrOcr    == [kind |-> <<"T", "e", "s", "s", "e", "r", "a", "c", "t", "E", "r", "r", "o", "r">>,
              detail |-> <<"t">>]
ErrWrite  == [kind |-> <<"O", "S", "E", "r", "r", "o", "r">>, detail |-> <<"w">>]
NoErr     == [kind |-> <<>>, detail |-> <<>>]

\* What image_to_string may return for a page: plain text with surrounding
\* white space, and text in which the words OCR FAILED occur.
OcrTexts == { <<" ", " ", "H", "i", "\n">>,
              <<"n", "o", " ", "O", "C", "R", " ", "F", "A", "I", "L", "E", "D">> }

\* Optional values: None / a message, an absent file / a file's content.
None == << >>
Some(v) == <<v>>

\* ----------------------------------------------------------------- paths

\* png_dir / f"{page_index:04d}.png" and txt_dir / f"{page_index:04d}.txt"
PngPath(page_index) == [stem |-> Fmt04(page_index), suffix |-> ".png"]
TxtPath(page_index) == [stem |-> Fmt04(page_index), suffix |-> ".txt"]

\* ----------------------------------------------------------------- state

VARIABLES
    pc,                \* where the program is: start, prompt, process, running, exited
    exit_code,         \* the process's exit status once it has exited
    runs,              \* invocations of the program so far, this one included
    dirs,              \* which of png_images/ and text_files/ exist
    png,               \* the entries of png_images/
    txt,               \* the entries of text_files/, each with its content
    combined,          \* combined_output.txt: None, or Some(content)
    last_page,         \* setup_and_run's last_page
    start_page,        \* GLOBAL_CONFIG['start_page']
    end_page,          \* GLOBAL_CONFIG['end_page'] (0 for None)
    tess,              \* what the Tesseract check of this invocation found
    futures,           \* the submitted page tasks, in submission order
    collected,         \* the futures as_completed has handed to the loop
    success_count,
    failure_count,
    failure_messages,
    calls,             \* pages the engines were called for in this invocation
    comb,              \* what combine_text_files did in this invocation
    done_order,        \* the futures in the order their tasks finished
    total_pages,       \* len(doc): the number of pages of the source document
    sys_stderr,        \* the stream the process-wide sys.stderr refers to
    closed,            \* the streams that have been closed
    store0,            \* the store as this invocation found it
    prev               \* the range and the outcome of the previous invocation

store == <<dirs, png, txt, combined>>
config == <<last_page, start_page, end_page>>
tally == <<success_count, failure_count, failure_messages>>
ghost == <<store0, prev>>
streams == <<sys_stderr, closed>>
vars == <<pc, exit_code, runs, dirs, png, txt, combined, last_page, start_page,
          end_page, tess, futures, collected, success_count, failure_count,
          failure_messages, calls, comb, done_order, total_pages, sys_stderr,
          closed, store0, prev>>

\* The streams: the interpreter's own stderr, and the one that the task of
\* future i gets from open(os.devnull, 'w').
OriginalStderr == 0
DevNull(i) == i

NoCalls == [open |-> {}, render |-> {}, ocr |-> {}]
NoComb == [ran |-> FALSE, sorted_files |-> << >>, unreadable |-> {},
           outcome |-> "none"]
NoPrev == [start_page |-> 0, end_page |-> 0, drained |-> FALSE, combine |-> "none"]

\* No read failed and the master file was not left half-written.
CombClean(c) == c.unreadable = {} /\ c.outcome # "failed"

\* A write that leaves f as the only entry of the directory.
WriteFileAlone(d, f, c) == [g \in {f} |-> c]

\* The file f with content c written into directory d (open(f, 'w'); write).
WriteFile(d, f, c) ==
    [g \in (DOMAIN d) \cup {f} |-> IF g = f THEN c ELSE d[g]]

Init ==
    /\ pc = "start"
    /\ total_pages \in 0..MaxPages
    /\ sys_stderr = OriginalStderr
    /\ closed = {}
    /\ exit_code = -1
    /\ runs = 1
    /\ dirs = {}
    /\ png = {}
    /\ txt = << >>
    /\ combined = None
    /\ last_page = 0
    /\ start_page = 1
    /\ end_page = 0
    /\ tess = "unknown"
    /\ futures = << >>
    /\ collected = {}
    /\ success_count = 0
    /\ failure_count = 0
    /\ failure_messages = << >>
    /\ calls = NoCalls
    /\ comb = NoComb
    /\ done_order = << >>
    /\ store0 = [dirs |-> {}, png |-> {}, txt |-> << >>, combined |-> None]
    /\ prev = NoPrev

\* ------------------------------------------------------ process_page_task

\* What a finished task hands to future.result(): a tuple, or an exception.
Result(success, page_index, error_msg) ==
    [raised |-> FALSE, success |-> success, page_index |-> page_index,
     error_msg |-> error_msg]
Raised == [raised |-> TRUE, success |-> FALSE, page_index |-> 0, error_msg |-> None]

\* executor.submit(process_page_task, pdf_path, page_num, ...)
NewTask(page_num) ==
    [page_num |-> page_num, pc |-> "queued", doc |-> FALSE, err |-> NoErr,
     original_stderr |-> OriginalStderr, text |-> << >>, ret |-> None]

\* page_index = page_num + 1
PageIndex(page_num) == page_num + 1

\* The skip check with the text file looked up under the 0-based page_num.
ShouldSkipByPageNum(page_index) ==
    /\ PngPath(page_index) \in png
    /\ TxtPath(page_index - 1) \in DOMAIN txt

\* The skip check that sends a page whose text file holds the marker back to
\* the engines.
ShouldSkipUnlessFailed(page_index) ==
    /\ PngPath(page_index) \in png
    /\ TxtPath(page_index) \in DOMAIN txt
    /\ ~Contains(txt[TxtPath(page_index)], Marker)

\* if png_filepath.exists() and txt_filepath.exists()
ShouldSkip(page_index) ==
    /\ PngPath(page_index) \in png
    /\ TxtPath(page_index) \in DOMAIN txt

Raise(i, e) == futures' = [futures EXCEPT ![i].err = e, ![i].pc = "except"]

\* The skip check: return (True, page_index, None), or go on to the engines.
TaskCheck(i) ==
    /\ pc = "running"
    /\ futures[i].pc = "queued"
    /\ LET page_index == PageIndex(futures[i].page_num)
       IN  \/ /\ ShouldSkip(page_index)
              /\ futures' = [futures EXCEPT
                    ![i].pc = "done",
                    ![i].ret = Some(Result(TRUE, page_index, None))]
              /\ done_order' = Append(done_order, i)
           \/ /\ ~ShouldSkip(page_index)
              /\ futures' = [futures EXCEPT ![i].pc = "open"]
              /\ UNCHANGED done_order
    /\ UNCHANGED <<pc, exit_code, runs, store, config, tess, collected, tally,
                   calls, comb, ghost, total_pages, streams>>

\* doc = fitz.open(pdf_path); page = doc.load_page(page_num)
\* fitz.open may raise, and so may load_page, with the document open.
TaskOpen(i) ==
    /\ pc = "running"
    /\ futures[i].pc = "open"
    /\ calls' = [calls EXCEPT !.open = @ \cup {PageIndex(futures[i].page_num)}]
    /\ \/ futures' = [futures EXCEPT ![i].doc = TRUE, ![i].pc = "render"]
       \/ Raise(i, ErrOpen)
       \/ futures' = [futures EXCEPT ![i].doc = TRUE, ![i].err = ErrOpen,
                                     ![i].pc = "except"]
    /\ UNCHANGED <<pc, exit_code, runs, store, config, tess, collected, tally,
                   comb, done_order, ghost, total_pages, streams>>

\* pix = page.get_pixmap(...); pix.save(str(png_filepath))
TaskRender(i) ==
    /\ pc = "running"
    /\ futures[i].pc = "render"
    /\ calls' = [calls EXCEPT !.render = @ \cup {PageIndex(futures[i].page_num)}]
    /\ \/ /\ png' = png \cup {PngPath(PageIndex(futures[i].page_num))}
          /\ futures' = [futures EXCEPT ![i].pc = "suppress"]
       \/ /\ Raise(i, ErrRender)
          /\ UNCHANGED png
    /\ UNCHANGED <<pc, exit_code, runs, dirs, txt, combined, config, tess,
                   collected, tally, comb, done_order, ghost, total_pages, streams>>

\* with suppress_stderr(), up to the yield: the task keeps the stream that
\* sys.stderr refers to and points sys.stderr at a devnull stream of its own.
TaskSuppress(i) ==
    /\ pc = "running"
    /\ futures[i].pc = "suppress"
    /\ futures' = [futures EXCEPT ![i].original_stderr = sys_stderr,
                                  ![i].pc = "ocr"]
    /\ sys_stderr' = DevNull(i)
    /\ UNCHANGED <<pc, exit_code, runs, store, config, tess, collected, tally,
                   calls, comb, done_order, ghost, total_pages, closed>>

\* text = pytesseract.image_to_string(str(png_filepath), lang=languages), and
\* the finally of suppress_stderr, whether the call returned or raised:
\* sys.stderr.close(); sys.stderr = original_stderr
TaskOcr(i) ==
    /\ pc = "running"
    /\ futures[i].pc = "ocr"
    /\ calls' = [calls EXCEPT !.ocr = @ \cup {PageIndex(futures[i].page_num)}]
    /\ \/ \E text \in OcrTexts :
            futures' = [futures EXCEPT ![i].text = text, ![i].pc = "write"]
       \/ Raise(i, ErrOcr)
    /\ closed' = closed \cup {sys_stderr}
    /\ sys_stderr' = futures[i].original_stderr
    /\ UNCHANGED <<pc, exit_code, runs, store, config, tess, collected, tally,
                   comb, done_order, ghost, total_pages>>

\* with open(txt_filepath, 'w') as f: f.write(text.strip())
\* return (True, page_index, None)
TaskWrite(i) ==
    /\ pc = "running"
    /\ futures[i].pc = "write"
    /\ LET page_index == PageIndex(futures[i].page_num)
       IN  \/ /\ txt' = WriteFile(txt, TxtPath(page_index), Strip(futures[i].text))
              /\ futures' = [futures EXCEPT
                    ![i].pc = "finally",
                    ![i].ret = Some(Result(TRUE, page_index, None))]
           \/ /\ Raise(i, ErrWrite)
              /\ UNCHANGED txt
           \/ /\ Raise(i, ErrWrite)
              /\ txt' = WriteFile(txt, TxtPath(page_index), << >>)
    /\ UNCHANGED <<pc, exit_code, runs, dirs, png, combined, config, tess,
                   collected, tally, calls, comb, done_order, ghost, total_pages, streams>>

\* except Exception as e: write the failure file, return (False, ...).
\* The handler's own write may raise, and then the exception leaves the task.
TaskExcept(i) ==
    /\ pc = "running"
    /\ futures[i].pc = "except"
    /\ LET page_index == PageIndex(futures[i].page_num)
           error_msg == ErrorMsg(futures[i].err)
       IN  \/ /\ txt' = WriteFile(txt, TxtPath(page_index), SentinelText(error_msg))
              /\ futures' = [futures EXCEPT
                    ![i].pc = "finally",
                    ![i].ret = Some(Result(FALSE, page_index, Some(error_msg)))]
           \/ /\ futures' = [futures EXCEPT
                    ![i].pc = "finally", ![i].ret = Some(Raised)]
              /\ UNCHANGED txt
           \/ /\ futures' = [futures EXCEPT
                    ![i].pc = "finally", ![i].ret = Some(Raised)]
              /\ txt' = WriteFile(txt, TxtPath(page_index), << >>)
    /\ UNCHANGED <<pc, exit_code, runs, dirs, png, combined, config, tess,
                   collected, tally, calls, comb, done_order, ghost, total_pages, streams>>

\* A task whose handle is closed at the end of the try block only: the
\* handle stays open when a step has raised.
CloseDocOnSuccess(t) == [t EXCEPT !.doc = (t.doc /\ t.err # NoErr)]

\* if doc: doc.close()
CloseDoc(t) == [t EXCEPT !.doc = FALSE]

\* finally: the handle is closed, and the task returns or raises.
TaskFinally(i) ==
    /\ pc = "running"
    /\ futures[i].pc = "finally"
    /\ futures' = [futures EXCEPT ![i] = [CloseDoc(futures[i]) EXCEPT !.pc = "done"]]
    /\ done_order' = Append(done_order, i)
    /\ UNCHANGED <<pc, exit_code, runs, store, config, tess, collected, tally,
                   calls, comb, ghost, total_pages, streams>>

\* ------------------------------------------------ get_last_processed_page

Max(S) == CHOOSE x \in S : \A y \in S : y <= x

\* A scan that reports the end of the longest run of complete pages from 1.
RECURSIVE PrefixFrom(_, _, _)
PrefixFrom(n, p, t) ==
    IF PngPath(n + 1) \in p /\ TxtPath(n + 1) \in DOMAIN t
    THEN PrefixFrom(n + 1, p, t) ELSE n
GetLastContiguousPage(d, p, t) ==
    IF "png_images" \notin d \/ "text_files" \notin d THEN 0
    ELSE PrefixFrom(0, p, t)

\* The scan of the store whose directories are d, whose png_images/ holds the
\* entries p and whose text_files/ holds the entries of t.
GetLastProcessedPage(d, p, t) ==
    IF "png_images" \notin d \/ "text_files" \notin d THEN 0
    ELSE LET processed_pages ==
                 { ParseInt(f.stem) :
                     f \in { g \in p :
                               /\ g.suffix = ".png"
                               /\ IsDigit(g.stem)
                               /\ [stem |-> g.stem, suffix |-> ".txt"] \in DOMAIN t } }
         IN  IF processed_pages = {} THEN 0 ELSE Max(processed_pages)

\* ----------------------------------------------------- combine_text_files

\* "OCR FAILED" not in f.read(50)
NotMarked(content) == ~Contains(ReadPrefix(content, ReadLen), Marker)

\* The loop over range(start_page, end_page + 1) from page_index on: the text
\* files that exist, can be read and do not hold the marker.
RECURSIVE SortedFilesFrom(_, _, _)
SortedFilesFrom(page_index, end, unreadable) ==
    IF page_index > end THEN << >>
    ELSE LET filepath == TxtPath(page_index)
             keep == /\ filepath \in DOMAIN txt
                     /\ filepath \notin unreadable
                     /\ NotMarked(txt[filepath])
         IN  (IF keep THEN <<filepath>> ELSE << >>)
                 \o SortedFilesFrom(page_index + 1, end, unreadable)

\* The files gathered in the order the tasks finished, not in page order.
RECURSIVE FilesInOrder(_, _)
FilesInOrder(order, unreadable) ==
    IF order = << >> THEN << >>
    ELSE LET filepath == TxtPath(PageIndex(futures[Head(order)].page_num))
             keep == /\ filepath \in DOMAIN txt
                     /\ filepath \notin unreadable
                     /\ NotMarked(txt[filepath])
         IN  (IF keep THEN <<filepath>> ELSE << >>)
                 \o FilesInOrder(Tail(order), unreadable)
SortedFilesByCompletion(start, end, unreadable) ==
    FilesInOrder(done_order, unreadable)

SortedFiles(start, end, unreadable) == SortedFilesFrom(start, end, unreadable)

\* What the write loop puts into the master file for the files given.
RECURSIVE CombinedText(_)
CombinedText(files) ==
    IF files = << >> THEN << >>
    ELSE Header(ParseInt(Head(files).stem)) \o txt[Head(files)]
             \o CombinedText(Tail(files))

\* The master file opened with 'a': what is written follows what was there.
WriteMasterAppend(files) ==
    Some((IF combined = None THEN << >> ELSE combined[1]) \o CombinedText(files))

\* with open(master_file, 'w') as outfile: the file's content once written.
WriteMaster(files) == Some(CombinedText(files))

\* The text files of the range, any of which a read may fail on.
TextFilesInRange(start, end) ==
    { TxtPath(page_index) : page_index \in start..end } \cap DOMAIN txt

\* ------------------------------------------------------------ process_pdf

\* range(start_page - 1, end_page), as a list
PagesToProcess(start, end) ==
    IF end < start THEN << >>
    ELSE [i \in 1..(end - start + 1) |-> (start - 1) + (i - 1)]

\* A loop that stops waiting once a first future has been handed to it.
AnyCollected == collected # {} \/ futures = << >>

\* The loop over as_completed(futures) has ended: every future was handed to it.
AllCollected == collected = 1..Len(futures)

\* The Tesseract check fails: print the error and return.
ProcessPdfNoTesseract ==
    /\ pc = "process"
    /\ dirs' = {"png_images", "text_files"}
    /\ tess' = "missing"
    /\ pc' = "exited"
    /\ exit_code' = 0
    /\ UNCHANGED <<runs, png, txt, combined, config, futures, collected, tally,
                   calls, comb, done_order, ghost, total_pages, streams>>

\* The directories are made, Tesseract answers, one task per page is submitted.
ProcessPdfSubmit ==
    /\ pc = "process"
    /\ dirs' = {"png_images", "text_files"}
    /\ tess' = "ok"
    /\ futures' = [i \in 1..Len(PagesToProcess(start_page, end_page)) |->
                     NewTask(PagesToProcess(start_page, end_page)[i])]
    /\ pc' = "running"
    /\ UNCHANGED <<exit_code, runs, png, txt, combined, config, collected, tally,
                   calls, comb, done_order, ghost, total_pages, streams>>

\* f"Page {page_index:04d}: {error_msg}"
FailureMessage(page_index, error_msg) ==
    <<"P", "a", "g", "e", " ">> \o Fmt04(page_index) \o <<":", " ">> \o error_msg

\* A fail-fast loop: on a failure the futures not yet started are cancelled,
\* and their result() raises CancelledError.
AfterFailureCancel(i) ==
    futures' = [j \in 1..Len(futures) |->
                  IF futures[j].pc = "queued"
                  THEN [futures[j] EXCEPT !.pc = "done", !.ret = Some(Raised)]
                  ELSE futures[j]]

\* The failure branches of the loop: the other futures are left to run.
AfterFailure(i) == UNCHANGED futures

\* A tally that leaves out the pages that were skipped as already complete.
SuccessCountUnlessSkipped(r) ==
    IF r.page_index \in calls.open THEN success_count + 1 ELSE success_count

\* if error_msg is None: success_count += 1
SuccessCount(r) ==
    IF r.error_msg = None THEN success_count + 1 ELSE success_count

\* One turn of the loop over as_completed(futures), which hands over a
\* finished future: the futures already finished when the loop starts come in
\* no particular order.
Collect(i) ==
    /\ pc = "running"
    /\ i \notin collected
    /\ futures[i].pc = "done"
    /\ collected' = collected \cup {i}
    /\ LET r == futures[i].ret[1]
       IN  \/ /\ ~r.raised
              /\ r.success
              /\ success_count' = SuccessCount(r)
              /\ UNCHANGED <<failure_count, failure_messages, futures>>
           \/ /\ ~r.raised
              /\ ~r.success
              /\ failure_count' = failure_count + 1
              /\ failure_messages' =
                    Append(failure_messages,
                           FailureMessage(r.page_index, r.error_msg[1]))
              /\ AfterFailure(i)
              /\ UNCHANGED success_count
           \/ /\ r.raised
              /\ failure_count' = failure_count + 1
              /\ AfterFailure(i)
              /\ UNCHANGED <<success_count, failure_messages>>
    /\ UNCHANGED <<pc, exit_code, runs, store, config, tess, calls, comb,
                   done_order, ghost, total_pages, streams>>

\* Every future is in: the report is printed; success_count is 0, so the
\* combiner is not called, process_pdf returns and the program ends.
FinishWithoutCombine ==
    /\ pc = "running"
    /\ AllCollected
    /\ success_count = 0
    /\ pc' = "exited"
    /\ exit_code' = 0
    /\ UNCHANGED <<runs, store, config, tess, futures, collected, tally, calls,
                   comb, done_order, ghost, total_pages, streams>>

\* Every future is in and success_count > 0: combine_text_files runs, then
\* process_pdf returns and the program ends.
CombineTextFiles ==
    /\ pc = "running"
    /\ AllCollected
    /\ success_count > 0
    /\ \E unreadable \in SUBSET TextFilesInRange(start_page, end_page) :
         LET sorted_files == SortedFiles(start_page, end_page, unreadable)
             did(outcome) == [ran |-> TRUE, sorted_files |-> sorted_files,
                              unreadable |-> unreadable, outcome |-> outcome]
         IN  \/ /\ sorted_files = << >>
                /\ comb' = did("nothing")
                /\ UNCHANGED combined
             \/ /\ sorted_files # << >>
                /\ comb' = did("written")
                /\ combined' = WriteMaster(sorted_files)
             \/ /\ sorted_files # << >>
                /\ comb' = did("failed")
                /\ UNCHANGED combined
             \/ /\ sorted_files # << >>
                /\ comb' = did("failed")
                /\ \E k \in 0..(Len(sorted_files) - 1) :
                      combined' = WriteMaster(SubSeq(sorted_files, 1, k))
    /\ pc' = "exited"
    /\ exit_code' = 0
    /\ UNCHANGED <<runs, dirs, png, txt, config, tess, futures, collected, tally,
                   calls, done_order, ghost, total_pages, streams>>

\* ---------------------------------------------------------- setup_and_run

Exit(code) ==
    /\ pc' = "exited"
    /\ exit_code' = code
    /\ UNCHANGED <<runs, store, config, tess, futures, collected, tally, calls,
                   comb, done_order, ghost, total_pages, streams>>

\* if not pdf_file.exists(): sys.exit(1)
SetupMissingFile ==
    /\ pc = "start"
    /\ Exit(1)

\* fitz.open raises: print "Error reading PDF", sys.exit(1)
SetupUnreadable ==
    /\ pc = "start"
    /\ Exit(1)

\* The document opens: end_page is its page count, the store is scanned.
SetupScan ==
    /\ pc = "start"
    /\ end_page' = total_pages
    /\ last_page' = GetLastProcessedPage(dirs, png, txt)
    /\ pc' = "prompt"
    /\ UNCHANGED <<exit_code, runs, store, start_page, tess, futures, collected,
                   tally, calls, comb, done_order, ghost, total_pages, streams>>

Reprompt == UNCHANGED vars

\* mode == 'q'
PromptQuit ==
    /\ pc = "prompt"
    /\ Exit(0)

\* mode == 'r'
PromptResume ==
    /\ pc = "prompt"
    /\ \/ /\ last_page > 0
          /\ last_page + 1 > total_pages
          /\ Exit(0)
       \/ /\ last_page > 0
          /\ last_page + 1 <= total_pages
          /\ start_page' = last_page + 1
          /\ pc' = "process"
          /\ UNCHANGED <<exit_code, runs, store, last_page, end_page, tess,
                         futures, collected, tally, calls, comb, done_order, ghost, total_pages, streams>>
       \/ /\ last_page = 0
          /\ Reprompt

\* mode == 'a'
PromptAll ==
    /\ pc = "prompt"
    /\ start_page' = 1
    /\ pc' = "process"
    /\ UNCHANGED <<exit_code, runs, store, last_page, end_page, tess, futures,
                   collected, tally, calls, comb, done_order, ghost, total_pages, streams>>

\* mode == 'n' or a START-END range typed at the prompt
PromptRange(start_page_input, end_page_input) ==
    /\ pc = "prompt"
    /\ \/ /\ ~(1 <= start_page_input /\ start_page_input <= end_page_input
                 /\ end_page_input <= total_pages)
          /\ Reprompt
       \/ /\ 1 <= start_page_input
          /\ start_page_input <= end_page_input
          /\ end_page_input <= total_pages
          /\ start_page' = start_page_input
          /\ end_page' = end_page_input
          /\ pc' = "process"
          /\ UNCHANGED <<exit_code, runs, store, last_page, tess, futures,
                         collected, tally, calls, comb, done_order, ghost, total_pages, streams>>

\* Anything else, or a range that does not parse: print and ask again.
PromptInvalid ==
    /\ pc = "prompt"
    /\ Reprompt

\* The program is started again on the same output store.
Restart ==
    /\ pc = "exited"
    /\ runs < MaxRuns
    /\ runs' = runs + 1
    /\ pc' = "start"
    /\ exit_code' = -1
    /\ last_page' = 0
    /\ start_page' = 1
    /\ end_page' = 0
    /\ tess' = "unknown"
    /\ futures' = << >>
    /\ collected' = {}
    /\ success_count' = 0
    /\ failure_count' = 0
    /\ failure_messages' = << >>
    /\ calls' = NoCalls
    /\ comb' = NoComb
    /\ done_order' = << >>
    /\ store0' = [dirs |-> dirs, png |-> png, txt |-> txt, combined |-> combined]
    /\ prev' = [start_page |-> start_page, end_page |-> end_page,
                drained |-> (tess = "ok" /\ AllCollected),
                combine |-> IF ~comb.ran THEN "none"
                            ELSE IF CombClean(comb) THEN "clean" ELSE "error"]
    /\ sys_stderr' = OriginalStderr
    /\ closed' = {}
    /\ UNCHANGED <<store, total_pages>>

\* ------------------------------------------------------- the specification

Next ==
    \/ SetupMissingFile
    \/ SetupUnreadable
    \/ SetupScan
    \/ PromptQuit
    \/ PromptResume
    \/ PromptAll
    \/ \E s, e \in 0..(MaxPages + 1) : PromptRange(s, e)
    \/ PromptInvalid
    \/ ProcessPdfNoTesseract
    \/ ProcessPdfSubmit
    \/ \E i \in 1..Len(futures) : TaskCheck(i)
    \/ \E i \in 1..Len(futures) : TaskOpen(i)
    \/ \E i \in 1..Len(futures) : TaskRender(i)
    \/ \E i \in 1..Len(futures) : TaskSuppress(i)
    \/ \E i \in 1..Len(futures) : TaskOcr(i)
    \/ \E i \in 1..Len(futures) : TaskWrite(i)
    \/ \E i \in 1..Len(futures) : TaskExcept(i)
    \/ \E i \in 1..Len(futures) : TaskFinally(i)
    \/ \E i \in 1..Len(futures) : Collect(i)
    \/ FinishWithoutCombine
    \/ CombineTextFiles
    \/ Restart

Spec == Init /\ [][Next]_vars

\* The pool runs every task it was given, every engine call returns or
\* raises, and the loop over as_completed and the code after it go on.
TaskStep ==
    \E i \in 1..Len(futures) :
        \/ TaskCheck(i) \/ TaskOpen(i) \/ TaskRender(i) \/ TaskSuppress(i)
        \/ TaskOcr(i) \/ TaskWrite(i) \/ TaskExcept(i) \/ TaskFinally(i)
Drain ==
    \/ \E i \in 1..Len(futures) : Collect(i)
    \/ FinishWithoutCombine
    \/ CombineTextFiles

\* One invocation of the program, on an empty store.
RunNext ==
    \/ SetupMissingFile
    \/ SetupUnreadable
    \/ SetupScan
    \/ PromptQuit
    \/ PromptResume
    \/ PromptAll
    \/ \E s, e \in 0..(MaxPages + 1) : PromptRange(s, e)
    \/ PromptInvalid
    \/ ProcessPdfNoTesseract
    \/ ProcessPdfSubmit
    \/ TaskStep
    \/ Drain

FairSpec == Init /\ [][RunNext]_vars /\ WF_vars(TaskStep) /\ WF_vars(Drain)

\* ------------------------------------------------------------- the claims

Futures == 1..Len(futures)
PageOf(i) == PageIndex(futures[i].page_num)
HasPng(page_index) == PngPath(page_index) \in png
HasTxt(page_index) == TxtPath(page_index) \in DOMAIN txt
TextOf(page_index) == txt[TxtPath(page_index)]
IsSentinel(content) == StartsWith(content, Sentinel)
IsRealText(content) == \E text \in OcrTexts : content = Strip(text)

\* The engines were not called for the task's page in this invocation: the
\* task ended at the skip check.
Skipped(i) ==
    /\ futures[i].pc = "done"
    /\ PageOf(i) \notin calls.open

\* C1. Idempotent skip: a page task that finds both the render artifact and
\* the text artifact of its page returns (True, page_index, None) at once,
\* calls neither engine, opens no document and leaves the whole store as it is.
C1_IdempotentSkip ==
    [][ \A i \in Futures :
          ( /\ pc = "running"
            /\ futures[i].pc = "queued"
            /\ HasPng(PageOf(i))
            /\ HasTxt(PageOf(i))
            /\ futures'[i].pc # "queued" )
          => ( /\ futures'[i].pc = "done"
               /\ futures'[i].ret = Some(Result(TRUE, PageOf(i), None))
               /\ futures'[i].doc = FALSE
               /\ calls' = calls
               /\ store' = store ) ]_vars

\* A task of a later invocation has ended at the skip check of a page that an
\* earlier invocation completed.
C1_Witness ==
    \E i \in Futures :
        /\ Skipped(i)
        /\ HasPng(PageOf(i))
        /\ HasTxt(PageOf(i))
        /\ futures[i].ret = Some(Result(TRUE, PageOf(i), None))

\* C2. Failure isolation: no finished page task hands an exception to the
\* coordinator; a task in which a step raised has written the sentinel text
\* artifact of its page and returned (False, page_index, message).
C2_FailureIsolation ==
    \A i \in Futures :
        futures[i].pc = "done" =>
            LET r == futures[i].ret[1]
                error_msg == ErrorMsg(futures[i].err)
            IN  /\ ~r.raised
                /\ futures[i].err # NoErr =>
                      /\ r = Result(FALSE, PageOf(i), Some(error_msg))
                      /\ HasTxt(PageOf(i))
                      /\ TextOf(PageOf(i)) = SentinelText(error_msg)

\* The render engine raised for the task's page in this invocation (the
\* document opened or not), so the task produced no render artifact.
RenderFailed(page_index) ==
    \E i \in Futures :
        /\ PageOf(i) = page_index
        /\ futures[i].err \in {ErrOpen, ErrRender}

\* C3. Completeness: once a run has drained, every page of its range has a text
\* artifact that is real extracted text or starts with the sentinel, and has a
\* render artifact unless rendering failed before producing one.
C3_Completeness ==
    (pc = "exited" /\ tess = "ok") =>
        \A page_index \in start_page..end_page :
            /\ HasTxt(page_index)
            /\ IsRealText(TextOf(page_index)) \/ IsSentinel(TextOf(page_index))
            /\ HasPng(page_index) \/ RenderFailed(page_index)

Succeeded(i) ==
    /\ futures[i].pc = "done"
    /\ ~futures[i].ret[1].raised
    /\ futures[i].ret[1].success

\* The run of process_pdf has its tasks: submitted and not yet torn down.
Submitted == pc = "running" \/ (pc = "exited" /\ tess = "ok")

\* One task per page index of start_page..end_page, in that order.
C4_OnePerPage ==
    Submitted =>
        /\ Len(futures) = end_page - start_page + 1
        /\ \A i \in Futures : PageOf(i) = start_page + i - 1

\* A finished task's outcome is its own: it succeeded exactly when none of
\* its own steps raised, and it went without the engines only when its page
\* was complete before the run.
C4_OwnOutcome ==
    \A i \in Futures :
        futures[i].pc = "done" =>
            /\ Succeeded(i) <=> futures[i].err = NoErr
            /\ Skipped(i) =>
                  /\ PngPath(PageOf(i)) \in store0.png
                  /\ TxtPath(PageOf(i)) \in DOMAIN store0.txt

\* The program ends a run only with every task finished and collected.
C4_AllDoneAtExit ==
    (pc = "exited" /\ tess = "ok") =>
        /\ AllCollected
        /\ \A i \in Futures : futures[i].pc = "done"

\* A step changes the task of at most one page.
C4_OneTaskPerStep ==
    \A i, j \in Futures :
        (pc = "running" /\ pc' = "running" /\ i # j /\ futures'[i] # futures[i])
            => futures'[j] = futures[j]

\* C4. Every page attempted exactly once: a run submits one task per page index
\* of its range, a task's success or failure depends on its own steps only (no
\* task is cancelled or skipped because another page failed), and every
\* submitted task eventually completes.
C4_EveryPageAttempted ==
    /\ [](C4_OnePerPage /\ C4_OwnOutcome /\ C4_AllDoneAtExit)
    /\ [][C4_OneTaskPerStep]_vars
    /\ (pc = "running") ~> (\A i \in Futures : futures[i].pc = "done")

\* A drained run in which the first task to finish failed and another page,
\* whose task went through the engines, succeeded.
C4_Witness ==
    /\ pc = "exited"
    /\ AllCollected
    /\ \E k, j \in Futures :
          /\ k # j
          /\ done_order[1] = k
          /\ ~Succeeded(k)
          /\ Succeeded(j)
          /\ PageOf(j) \in calls.ocr

\* The elements of a set of numbers, ascending.
RECURSIVE Ascending(_)
Ascending(S) ==
    IF S = {} THEN << >>
    ELSE LET m == CHOOSE x \in S : \A y \in S : x <= y
         IN  <<m>> \o Ascending(S \ {m})

\* The sections of the pages given: each page's header, then its text.
RECURSIVE Sections(_)
Sections(pages) ==
    IF pages = << >> THEN << >>
    ELSE Header(Head(pages)) \o TextOf(Head(pages)) \o Sections(Tail(pages))

MergedPages == [k \in 1..Len(comb.sorted_files) |-> ParseInt(comb.sorted_files[k].stem)]

\* C5. Ordered aggregation: the files the combiner gathered are in strictly
\* ascending page order, and when it has written the combined artifact, the
\* artifact is the sections of a set of pages in strictly ascending page
\* order, whatever the order in which the tasks finished.
C5_OrderedAggregation ==
    /\ \A k \in 1..(Len(MergedPages) - 1) : MergedPages[k] < MergedPages[k + 1]
    /\ comb.outcome = "written" =>
          \E S \in (SUBSET { page_index \in 1..MaxPages : HasTxt(page_index) }) \ {{}} :
              combined = Some(Sections(Ascending(S)))

\* The combined artifact was written with the sections of pages 1 and 2 in a
\* run in which the task of page 2 finished before the task of page 1.
C5_Witness ==
    /\ comb.outcome = "written"
    /\ MergedPages = <<1, 2>>
    /\ combined = Some(Sections(<<1, 2>>))
    /\ Len(done_order) = 2
    /\ PageOf(done_order[1]) = 2
    /\ PageOf(done_order[2]) = 1

\* C6. Combine correctness: the pages combine_text_files merges are exactly
\* the pages of the range whose text artifact exists and does not start with
\* the failure sentinel (no read having failed).
C6_CombineCorrectness ==
    (comb.ran /\ comb.unreadable = {}) =>
        { MergedPages[k] : k \in 1..Len(MergedPages) }
            = { page_index \in start_page..end_page :
                    HasTxt(page_index) /\ ~IsSentinel(TextOf(page_index)) }

\* Both artifacts of the page were in the store when this invocation began.
WasComplete(page_index) ==
    /\ PngPath(page_index) \in store0.png
    /\ TxtPath(page_index) \in DOMAIN store0.txt

\* process_pdf has run over the range that the previous invocation drained,
\* and that invocation left every page of the range with both artifacts.
SameRangeAgain ==
    /\ pc = "exited"
    /\ tess # "unknown"
    /\ prev.drained
    /\ prev.start_page = start_page
    /\ prev.end_page = end_page
    /\ \A page_index \in start_page..end_page : WasComplete(page_index)

PagesUntouched ==
    /\ calls = NoCalls
    /\ png = store0.png
    /\ txt = store0.txt

CompletePages == { page_index \in 1..MaxPages : HasPng(page_index) /\ HasTxt(page_index) }

\* C8. Progress scan: get_last_processed_page returns the greatest page index
\* that has both a render artifact and a text artifact, 0 when there is none
\* or when the store's directories are absent. (At the prompt and on entry to
\* process_pdf the store is as the scan read it.)
C8_ProgressScan ==
    pc \in {"prompt", "process"} =>
        /\ last_page = (IF CompletePages = {} THEN 0 ELSE Max(CompletePages))
        /\ \A page_index \in 1..MaxPages :
              (~HasPng(page_index) \/ ~HasTxt(page_index)) => last_page # page_index
        /\ dirs = {} => last_page = 0

\* The scan has reported page 2 although page 1 has a text artifact only.
C8_Witness ==
    /\ pc = "prompt"
    /\ last_page = 2
    /\ HasTxt(1)
    /\ ~HasPng(1)

\* C9. Fatal setup error: when Tesseract is not found, no page task is started,
\* no per-page artifact is written and the process exits with code 1.
C9_FatalSetupError ==
    (pc = "exited" /\ tess = "missing") =>
        /\ futures = << >>
        /\ calls = NoCalls
        /\ png = store0.png
        /\ txt = store0.txt
        /\ exit_code = 1

\* No task is at work on the page: none is between its skip check and its end.
Idle(page_index) ==
    \A i \in Futures :
        PageOf(i) = page_index => futures[i].pc \in {"queued", "done"}

\* The engines called for the page in the step, if any.
NewCalls(page_index) ==
    \/ page_index \in calls'.open \ calls.open
    \/ page_index \in calls'.render \ calls.render
    \/ page_index \in calls'.ocr \ calls.ocr

\* C10. OCR-failed pages are not retried: while no task is at work on it, a
\* page with a render artifact and a sentinel text artifact keeps both as they
\* are and has no engine called for it, in this and in every later invocation;
\* and a task that finds a sentinel text artifact but no render artifact for
\* its page goes on to the engines.
C10_FailedPagesNotRetried ==
    [][ /\ \A page_index \in 1..MaxPages :
            ( /\ HasPng(page_index)
              /\ HasTxt(page_index)
              /\ IsSentinel(TextOf(page_index))
              /\ Idle(page_index) )
            => ( /\ HasPng(page_index)'
                 /\ HasTxt(page_index)'
                 /\ TextOf(page_index)' = TextOf(page_index)
                 /\ Idle(page_index)'
                 /\ ~NewCalls(page_index) )
        /\ \A i \in Futures :
            ( /\ pc = "running"
              /\ futures[i].pc = "queued"
              /\ HasTxt(PageOf(i))
              /\ IsSentinel(TextOf(PageOf(i)))
              /\ ~HasPng(PageOf(i))
              /\ futures'[i].pc # "queued" )
            => futures'[i].pc = "open" ]_vars

\* In a later invocation over pages 1-2, the task of page 1, left by an
\* earlier invocation with a render artifact and a sentinel text artifact, has
\* ended at the skip check, and the task of page 2, left with a sentinel text
\* artifact and no render artifact, has gone on to the engines.
C10_Witness ==
    /\ runs > 1
    /\ Len(futures) = 2
    /\ WasComplete(1)
    /\ IsSentinel(store0.txt[TxtPath(1)])
    /\ Skipped(1)
    /\ HasTxt(1)
    /\ TextOf(1) = store0.txt[TxtPath(1)]
    /\ TxtPath(2) \in DOMAIN store0.txt
    /\ IsSentinel(store0.txt[TxtPath(2)])
    /\ PngPath(2) \notin store0.png
    /\ 2 \in calls.open

\* The step is one of the task of future i.
StepOf(i) == pc = "running" /\ pc' = "running" /\ futures'[i] # futures[i]

\* The step writes no render artifact and no text artifact but those of page_index.
WritesOnly(page_index) ==
    /\ png' \ png \subseteq {PngPath(page_index)}
    /\ png \subseteq png'
    /\ \A f \in (DOMAIN txt) \cup (DOMAIN txt') :
          f # TxtPath(page_index) =>
              f \in DOMAIN txt /\ f \in DOMAIN txt' /\ txt'[f] = txt[f]

\* C11. No contention between concurrent page tasks: a task writes only the
\* render path and the text path of its own page, no two tasks of a run have
\* the same page, and no task reads or writes state that another task wrote:
\* the stream a task keeps as original_stderr is the interpreter's own, and
\* the only stream a task closes is the devnull stream it opened itself.
C11_NoContention ==
    [][ \A i \in Futures :
          StepOf(i) =>
              /\ WritesOnly(PageOf(i))
              /\ \A j \in Futures : j # i => PageOf(j) # PageOf(i)
              /\ futures'[i].original_stderr = OriginalStderr
              /\ closed' \ closed \subseteq {DevNull(i)} ]_vars

\* The task of future i is executing: it has left the queue and has not ended.
Executing(i) == futures[i].pc \notin {"queued", "done"}

OpenHandles == { i \in Futures : futures[i].doc }

\* C12. Resource release: a document handle is open only while its task is
\* executing, so a task that has ended, by any path, has its handle closed;
\* the number of open handles is at most the number of executing tasks, and
\* is zero once the run has drained.
C12_ResourceRelease ==
    /\ \A i \in Futures : futures[i].doc => Executing(i)
    /\ Cardinality(OpenHandles) <= Cardinality({ i \in Futures : Executing(i) })
    /\ pc = "exited" => OpenHandles = {}

\* A drained run in which one task opened the document and failed in the OCR
\* call, the other opened it and failed while writing its text artifact, and
\* both handles are closed.
C12_Witness ==
    /\ pc = "exited"
    /\ Len(futures) = 2
    /\ futures[1].err = ErrOcr
    /\ futures[2].err = ErrWrite
    /\ {1, 2} \subseteq calls.open
    /\ OpenHandles = {}

\* The step is the call of combine_text_files.
CombineStep == ~comb.ran /\ comb'.ran

\* C13. Monotonic store: no step of any run takes a directory, a render
\* artifact or a text artifact out of the store, and combine_text_files,
\* whatever its outcome, leaves every render and text artifact as it is.
C13_MonotonicStore ==
    [][ /\ dirs \subseteq dirs'
        /\ png \subseteq png'
        /\ (DOMAIN txt) \subseteq (DOMAIN txt')
        /\ CombineStep => (png' = png /\ txt' = txt) ]_vars

\* In a later invocation, combine_text_files has failed while writing the
\* merged artifact, leaving part of it, over a store that holds what the
\* earlier invocation left and more.
C13_Witness ==
    /\ runs > 1
    /\ comb.outcome = "failed"
    /\ combined # store0.combined
    /\ store0.png # {}
    /\ store0.png \subseteq png
    /\ png # store0.png
    /\ (DOMAIN store0.txt) \subseteq (DOMAIN txt)

\* C14. Combine guard: combine_text_files is started only when every submitted
\* page task has ended and has been collected and success_count is greater
\* than 0; no page task is executing when it starts, nor after it has run.
C14_CombineGuard ==
    /\ [][ CombineStep =>
             /\ \A i \in Futures : futures[i].pc = "done"
             /\ AllCollected
             /\ success_count > 0 ]_vars
    /\ [](comb.ran => \A i \in Futures : ~Executing(i))

\* combine_text_files has run after a run over two pages of which one
\* succeeded and one failed.
C14_Witness ==
    /\ comb.ran
    /\ Len(futures) = 2
    /\ success_count = 1
    /\ failure_count = 1

\* The task of future i returned (False, page_index, error_msg).
ReturnedFailure(i) ==
    /\ futures[i].pc = "done"
    /\ ~futures[i].ret[1].raised
    /\ ~futures[i].ret[1].success

\* The failure_messages entry of a task that returned failure.
MessageOf(i) == FailureMessage(PageOf(i), futures[i].ret[1].error_msg[1])

\* The entries of the tasks of order that returned failure, in that order.
RECURSIVE MessagesIn(_)
MessagesIn(order) ==
    IF order = << >> THEN << >>
    ELSE (IF ReturnedFailure(Head(order)) THEN <<MessageOf(Head(order))>> ELSE << >>)
             \o MessagesIn(Tail(order))

\* Each collected task has incremented exactly one of the two counters.
TallyOfCollected ==
    /\ success_count = Cardinality({ i \in collected : Succeeded(i) })
    /\ failure_count = Cardinality({ i \in collected : ~Succeeded(i) })

\* Once drained, the counters add up to the number of pages of the range.
TallyAtDrain ==
    (pc = "exited" /\ tess = "ok") =>
        /\ collected = Futures
        /\ success_count + failure_count = Len(futures)
        /\ Len(futures) = end_page - start_page + 1

C16_ValidRange ==
    pc = "process" =>
        /\ 1 <= start_page
        /\ start_page <= end_page
        /\ end_page <= total_pages

\* "{errorKind}: {errorDetail}" for the exception e.
KindAndDetail(e) == e.kind \o <<":", " ">> \o e.detail

\* The task of future i has written its failure artifact and has its failure
\* result.
HasFailureResult(i) ==
    /\ futures[i].pc \in {"finally", "done"}
    /\ ~futures[i].ret[1].raised
    /\ ~futures[i].ret[1].success

\* C17 as stated. Failure artifact format: the text artifact of a failed page
\* is the sentinel followed by exactly "{errorKind}: {errorDetail}", and the
\* message of the failure result is that same "{errorKind}: {errorDetail}".
C17_FailureFormat ==
    \A i \in Futures :
        HasFailureResult(i) =>
            /\ HasTxt(PageOf(i))
            /\ TextOf(PageOf(i)) = Sentinel \o KindAndDetail(futures[i].err)
            /\ futures[i].ret[1].error_msg = Some(KindAndDetail(futures[i].err))

\* C17 as amended: when a task returns a failure result, the text artifact
\* it wrote is the sentinel followed by "OCR failed: {errorKind}:
\* {errorDetail}", and the message of the failure result is that same
\* "OCR failed: {errorKind}: {errorDetail}".
C17_FailureFormatAmended ==
    \A i \in Futures :
        HasFailureResult(i) =>
            /\ HasTxt(PageOf(i))
            /\ StartsWith(TextOf(PageOf(i)), Sentinel)
            /\ TextOf(PageOf(i)) =
                  Sentinel \o ErrPrefix \o KindAndDetail(futures[i].err)
            /\ futures[i].ret[1].error_msg =
                  Some(ErrPrefix \o KindAndDetail(futures[i].err))
            /\ futures[i].ret[1].page_index = PageOf(i)

\* A task whose OCR call raised has ended with its failure result, its page
\* having a render artifact and the failure artifact.
C17_Witness ==
    \E i \in Futures :
        /\ futures[i].pc = "done"
        /\ HasFailureResult(i)
        /\ futures[i].err = ErrOcr
        /\ HasPng(PageOf(i))
        /\ IsSentinel(TextOf(PageOf(i)))

\* C18. Completed pages are stable: in every reachable state, a page whose
\* text artifact does not start with the sentinel has a render artifact too
\* (so that the skip check keeps every later run away from it).
C18_CompletedPagesStable ==
    \A page_index \in 1..MaxPages :
        (HasTxt(page_index) /\ ~IsSentinel(TextOf(page_index)))
            => HasPng(page_index)

\* The task of future i is inside suppress_stderr.
Suppressing(i) == futures[i].pc = "ocr"

\* The task of future i has opened its devnull stream.
OpenedDevNull(i) ==
    futures[i].pc = "ocr" \/ PageOf(i) \in calls.ocr

\* C19. Stderr restoration under concurrency: whenever no task is inside
\* suppress_stderr, sys.stderr refers to the original stream, the original
\* stream has not been closed, and every devnull stream a task opened has
\* been closed.
C19_StderrRestored ==
    (\A i \in Futures : ~Suppressing(i)) =>
        /\ sys_stderr = OriginalStderr
        /\ OriginalStderr \notin closed
        /\ \A i \in Futures : OpenedDevNull(i) => DevNull(i) \in closed

\* The pages of the run's range whose text artifact exists and does not start
\* with the failure sentinel.
QualifyingPages ==
    { page_index \in start_page..end_page :
        HasTxt(page_index) /\ ~IsSentinel(TextOf(page_index)) }

\* C20. The combined artifact reflects only the latest written range: when the
\* run has written it (no read having failed), it holds the sections of
\* exactly the qualifying pages of the run's range, in page order, and nothing
\* of the pages outside the range; and while the run has not combined, or has
\* found nothing to merge, it is as the earlier runs left it.
C20_LatestRangeOnly ==
    /\ (comb.outcome = "written" /\ comb.unreadable = {})
          => combined = Some(Sections(Ascending(QualifyingPages)))
    /\ comb.outcome \in {"none", "nothing"} => combined = store0.combined

=============================================================================
